---- MODULE Spec2Model ----
(***************************************************************************)
(* The CSRF middleware of lib/cjs/index.js: the module-level configuration *)
(* object csrf, generate (which merges a configuration into csrf and       *)
(* returns the issue middleware), setTokenLocalsParam (expose) and protect *)
(* (validate), driven by an Express application that mounts every          *)
(* generated instance, then setTokenLocalsParam, then protect, in front of *)
(* a route handler (README usage; tests/e2e/csrf.spec.js).                 *)
(*                                                                         *)
(* Environment assumptions, all taken from the test application:           *)
(*   - requests are served one at a time, each running the mounted         *)
(*     middleware synchronously from first to last;                        *)
(*   - generate is called while the application is set up, before the      *)
(*     first request;                                                      *)
(*   - req.headers is an object; req.body is one when body-parser is       *)
(*     mounted (the test application) and undefined when it is not (the    *)
(*     README's application);                                              *)
(*   - crypto.randomBytes never repeats a value (tokens are fresh).        *)
(***************************************************************************)
EXTENDS Integers, Sequences, FiniteSets, TLC

(* ------------------------------ bounds -------------------------------- *)

\* generate calls made while the application is set up
MaxInstances == 2
\* requests served after set-up
MaxRequests == 3
\* tokens crypto.randomBytes is asked for
MaxTokens == 3
\* requests of one client in flight at a time (concurrent specification)
MaxFlights == 2

(* --------------------------- JavaScript values ------------------------ *)

\* A value held in a session key, a cookie, a body field, a header or a
\* response local: undefined, null or a string (a sequence of hex digits).
Undefined == [k |-> "undefined", s |-> <<>>]
Null == [k |-> "null", s |-> <<>>]
Str(s) == [k |-> "string", s |-> s]

\* JavaScript truthiness: undefined, null and '' are falsy.
Truthy(v) == v.k = "string" /\ v.s # <<>>

\* a || b
Or(a, b) == IF Truthy(a) THEN a ELSE b

\* !a
Not(a) == ~Truthy(a)

\* a !== b on undefined, null and strings
StrictNotEqual(a, b) == a # b

\* The code units a !== b looks at: ordinary string equality compares two
\* strings of one length unit by unit and stops at the first that differs.
CompareSteps(a, b) ==
    IF a.k # "string" \/ b.k # "string" \/ Len(a.s) # Len(b.s) THEN 0
    ELSE LET differ == {i \in 1..Len(a.s) : a.s[i] # b.s[i]} IN
         IF differ = {} THEN Len(a.s)
         ELSE CHOOSE i \in differ : \A j \in differ : i <= j

(* ------------------------------ constants ----------------------------- *)

STORAGE_SESSION == "session"
STORAGE_COOKIE == "cookie"

DefaultTokenLength == 16
TestTokenLength == 24

\* The names a configuration can give the token (csrf.param) and the
\* response local (csrf.value).
Params == {"_csrf", "tok"}
Values == {"csrfToken", "tokVar"}

Fields ==
    {"tokenLength", "storage", "param", "value",
     "errorResponse", "protectCondition", "getTransmitToken"}

(* --------------------------- token generation ------------------------- *)

\* crypto.randomBytes(len) for the n-th call (n < 256): len bytes, never the
\* bytes of an earlier call (the call number is the first byte).
RandomBytes(n, len) == [i \in 1..len |-> IF i = 1 THEN n % 256 ELSE 0]

\* Buffer.toString('hex'): two hex digits per byte, high nibble first.
ToHex(bytes) ==
    [i \in 1..(2 * Len(bytes)) |->
        IF i % 2 = 1 THEN bytes[(i + 1) \div 2] \div 16
                     ELSE bytes[i \div 2] % 16]

\* crypto.randomBytes(csrf.tokenLength).toString('hex')
NewToken(n, len) == Str(ToHex(RandomBytes(n, len)))

(* ----------------------------- configuration -------------------------- *)

\* let csrf = {...}: the module-level configuration before any generate.
InitialCsrf ==
    [tokenLength |-> DefaultTokenLength,
     storage |-> STORAGE_SESSION,
     param |-> "_csrf",
     value |-> "csrfToken",
     errorResponse |-> "default",
     protectCondition |-> "default",
     getTransmitToken |-> "default"]

\* A csrfConfig argument: has is the set of properties the object carries;
\* a property it does not carry reads as undefined (kept at a fixed filler).
Config(has, over) ==
    [f \in Fields \cup {"has"} |->
        IF f = "has" THEN has
        ELSE IF f \in has THEN over[f] ELSE InitialCsrf[f]]

\* The default value of generate's parameter, evaluated when generate is
\* called without an argument: the three hooks are read from csrf then.
DefaultParameter(c) ==
    Config(Fields,
           [InitialCsrf EXCEPT !.errorResponse = c.errorResponse,
                               !.protectCondition = c.protectCondition,
                               !.getTransmitToken = c.getTransmitToken])

\* generate({tokenLength: 24, storage: {type: COOKIE, options}})
CookieConfig ==
    Config({"tokenLength", "storage"},
           [InitialCsrf EXCEPT !.tokenLength = TestTokenLength,
                               !.storage = STORAGE_COOKIE])

\* generate({param, value, tokenLength, storage: {type: SESSION}})
ParamConfig ==
    Config({"param", "value", "tokenLength", "storage"},
           [InitialCsrf EXCEPT !.param = "tok", !.value = "tokVar"])

\* generate({protectCondition: (req) => true})
HookOnlyConfig ==
    Config({"protectCondition"},
           [InitialCsrf EXCEPT !.protectCondition = "always"])

\* generate({errorResponse: custom, storage: {type: SESSION}})
ErrorHookConfig ==
    Config({"errorResponse", "storage"},
           [InitialCsrf EXCEPT !.errorResponse = "custom"])

\* generate({tokenLength: 0, storage: {type: SESSION}})
ZeroLengthConfig ==
    Config({"tokenLength", "storage"}, [InitialCsrf EXCEPT !.tokenLength = 0])

\* generate({tokenLength: -1, storage: {type: SESSION}})
NegativeLengthConfig ==
    Config({"tokenLength", "storage"}, [InitialCsrf EXCEPT !.tokenLength = -1])

\* generate({errorResponse: f, storage: {type: SESSION}}) with an f that
\* sets the status and then throws
ThrowingHookConfig ==
    Config({"errorResponse", "storage"},
           [InitialCsrf EXCEPT !.errorResponse = "throws"])

Configs ==
    {CookieConfig, ParamConfig, HookOnlyConfig, ErrorHookConfig,
     ZeroLengthConfig, NegativeLengthConfig, ThrowingHookConfig}

\* csrf = { ...csrf, ...csrfConfig }
Merge(c, cfg) == [f \in Fields |-> IF f \in cfg.has THEN cfg[f] ELSE c[f]]

(* ------------------------------- state -------------------------------- *)

VARIABLES
    csrf,       \* the module-level configuration object
    instances,  \* the csrfConfig each returned middleware closed over, in mount order
    app,        \* which of express-session and cookie-parser the application mounts
    store,      \* the client's session data as the session store holds it
    jar,        \* the browser's cookie jar
    req,        \* the request being served and its position in the pipeline
    res,        \* its response
    nonce,      \* calls of crypto.randomBytes so far
    served,     \* requests served so far
    log,        \* what the middleware of the current request did (observation only)
    hist,       \* what earlier requests did (observation only)
    flight      \* the requests in flight when requests are served concurrently

vars == <<csrf, instances, app, store, jar, req, res, nonce, served, log, hist, flight>>

EmptyObject == [p \in Params |-> Undefined]
EmptyLocals == [v \in Values |-> Undefined]

IdleReq ==
    [pc |-> "idle", i |-> 0, how |-> "none", kind |-> "browser", method |-> "GET",
     hasBody |-> FALSE, body |-> EmptyObject, header |-> Undefined,
     hasCookies |-> FALSE, cookies |-> EmptyObject,
     hasSession |-> FALSE, session |-> EmptyObject,
     currentCsrfToken |-> Undefined]

FreshRes == [locals |-> EmptyLocals, status |-> 0, text |-> "", cookieOps |-> <<>>]

EmptyLog ==
    [issues |-> <<>>,
     exposed |-> FALSE,
     protect |-> [ran |-> FALSE, trace |-> <<>>, submitted |-> Undefined,
                  canonical |-> Undefined, outcome |-> "none", before |-> Undefined,
                  session |-> EmptyObject, ops |-> 0, steps |-> 0]]

\* A slot for a request in flight: the request, its response, what its
\* middleware did, and the session data as express-session loaded it.
NoFlight == [req |-> IdleReq, res |-> FreshRes, log |-> EmptyLog, loaded |-> EmptyObject]
NoFlights == [k \in 1..MaxFlights |-> NoFlight]

(* ------------------------- the csrf object's methods ------------------ *)

\* A getToken that reads through a missing req.session or req.cookies
\* (req.session?.[param]) instead of throwing.
GetTokenLenient(c, rq) ==
    [ok |-> TRUE,
     val |-> Or(IF c.storage = STORAGE_SESSION THEN rq.session[c.param]
                ELSE rq.cookies[c.param], Null)]

\* csrf.getToken: [ok |-> FALSE] when the property read throws a TypeError
\* (req.session or req.cookies is undefined).
GetToken(c, rq) ==
    IF c.storage = STORAGE_SESSION
    THEN IF rq.hasSession
         THEN [ok |-> TRUE, val |-> Or(rq.session[c.param], Null)]
         ELSE [ok |-> FALSE, val |-> Null]
    ELSE IF rq.hasCookies
         THEN [ok |-> TRUE, val |-> Or(rq.cookies[c.param], Null)]
         ELSE [ok |-> FALSE, val |-> Null]

\* A clearToken that leaves the token where it is.
ClearTokenNothing(c, rq, rs) == [ok |-> TRUE, req |-> rq, res |-> rs]

\* csrf.clearToken: delete req.session[param], or res.clearCookie(param).
ClearToken(c, rq, rs) ==
    IF c.storage = STORAGE_SESSION
    THEN IF rq.hasSession
         THEN [ok |-> TRUE,
               req |-> [rq EXCEPT !.session[c.param] = Undefined],
               res |-> rs]
         ELSE [ok |-> FALSE, req |-> rq, res |-> rs]
    ELSE [ok |-> TRUE,
          req |-> rq,
          res |-> [rs EXCEPT !.cookieOps =
                       Append(@, [op |-> "clear", name |-> c.param, val |-> Undefined])]]

\* A default policy that forgets DELETE.
ProtectConditionNoDelete(c, rq) ==
    IF c.protectCondition = "default"
    THEN rq.method = "POST" \/ rq.method = "PUT"
    ELSE TRUE

\* csrf.protectCondition, or the README's replacement (req) => true.
ProtectCondition(c, rq) ==
    IF c.protectCondition = "default"
    THEN rq.method = "POST" \/ rq.method = "PUT" \/ rq.method = "DELETE"
    ELSE TRUE

\* csrf.getTransmitToken: req.body._csrf || req.headers['csrf-token']
GetTransmitToken(c, rq) == Or(rq.body["_csrf"], rq.header)

\* csrf.errorResponse: res.status(403).send('CSRF token invalid'), or the
\* README's replacement res.status(403).render('<h1>CSRF token invalid</h1>'),
\* or a replacement that throws once it has set the status.
ErrorResponse(c, rq, rs) ==
    IF c.errorResponse = "default"
    THEN [rs EXCEPT !.status = 403, !.text = "CSRF token invalid"]
    ELSE IF c.errorResponse = "throws"
    THEN [rs EXCEPT !.status = 403]
    ELSE [rs EXCEPT !.status = 403, !.text = "<h1>CSRF token invalid</h1>"]

(* ------------------------------ middleware ---------------------------- *)

\* A catch block that answers with the rejection instead of next(error).
ErrorHandlerForbidden(rs) == [rs EXCEPT !.status = 403, !.text = "CSRF token invalid"]

\* What next(error) leads to: Express's error handler answers 500.
ErrorHandler(rs) == [rs EXCEPT !.status = 500, !.text = "Internal Server Error"]

\* The middleware generate returns, closed over its csrfConfig cc, reading
\* the module-level csrf c; n is the number of randomBytes calls so far.
\* outcome: "next" (next()), "error" (next(error)) or "throw" (the async
\* function rejects and nothing after it runs).
IssueStep(cc, c, rq, rs, n) ==
    LET Stop(o, found) ==
            [req |-> rq,
             res |-> IF o = "error" THEN ErrorHandler(rs) ELSE rs,
             outcome |-> o, minted |-> FALSE, token |-> Undefined, found |-> found]
    IN
    IF "storage" \notin cc.has THEN Stop("throw", Undefined)
    ELSE IF cc.storage = STORAGE_SESSION /\ ~rq.hasSession THEN Stop("throw", Undefined)
    ELSE IF cc.storage = STORAGE_COOKIE /\ ~rq.hasCookies THEN Stop("throw", Undefined)
    ELSE LET g == GetToken(c, rq) IN
         IF ~g.ok THEN Stop("error", Undefined)
         ELSE IF ~Not(g.val) THEN Stop("next", g.val)
         ELSE IF c.tokenLength < 0 THEN Stop("error", g.val)
         ELSE LET token == NewToken(n + 1, c.tokenLength) IN
              [req |-> IF c.storage = STORAGE_SESSION
                       THEN [rq EXCEPT !.session[c.param] = token,
                                       !.currentCsrfToken = token]
                       ELSE [rq EXCEPT !.currentCsrfToken = token],
               res |-> IF c.storage = STORAGE_SESSION
                       THEN rs
                       ELSE [rs EXCEPT !.cookieOps =
                                Append(@, [op |-> "set", name |-> c.param, val |-> token])],
               outcome |-> "next", minted |-> TRUE, token |-> token, found |-> g.val]

\* A setTokenLocalsParam without the fallback to req.currentCsrfToken.
ExposeStepNoFallback(c, rq, rs) ==
    [res |-> [rs EXCEPT !.locals[c.value] = GetToken(c, rq).val],
     outcome |-> "next"]

\* setTokenLocalsParam: a TypeError of getToken is thrown to Express.
ExposeStep(c, rq, rs) ==
    LET g == GetToken(c, rq) IN
    IF ~g.ok
    THEN [res |-> ErrorHandler(rs), outcome |-> "error"]
    ELSE [res |-> [rs EXCEPT !.locals[c.value] = Or(g.val, rq.currentCsrfToken)],
          outcome |-> "next"]

\* A protect that clears the token before it looks at protectCondition.
ProceedClearing(c, rq, rs) ==
    [req |-> ClearToken(c, rq, rs).req, res |-> ClearToken(c, rq, rs).res,
     outcome |-> "next",
     trace |-> <<"protectCondition", "clearToken", "next">>,
     submitted |-> Undefined, canonical |-> Undefined]

\* protect, when protectCondition is false: nothing but next().
Proceed(c, rq, rs) ==
    [req |-> rq, res |-> rs, outcome |-> "next",
     trace |-> <<"protectCondition", "next">>,
     submitted |-> Undefined, canonical |-> Undefined]

\* A test written with && in place of ||.
TokenInvalidAnd(token, g) == Not(token) /\ StrictNotEqual(token, g.val)

\* !token || token !== csrf.getToken(req); g is what getToken returned.
TokenInvalid(token, g) == Not(token) \/ StrictNotEqual(token, g.val)

\* A rejection that consumes the token all the same.
RejectClearing(c, rq, rs, token, g, read) ==
    [req |-> ClearToken(c, rq, rs).req,
     res |-> ErrorResponse(c, rq, ClearToken(c, rq, rs).res),
     outcome |-> "rejected",
     trace |-> <<"protectCondition", "getTransmitToken", "getToken", "errorResponse">>,
     submitted |-> token, canonical |-> g.val]

\* return csrf.errorResponse(req, res, next); read tells whether getToken
\* ran. The call is inside protect's try block: what errorResponse throws is
\* caught and passed to next(error).
Reject(c, rq, rs, token, g, read) ==
    LET calls == IF read
                 THEN <<"protectCondition", "getTransmitToken", "getToken", "errorResponse">>
                 ELSE <<"protectCondition", "getTransmitToken", "errorResponse">>
    IN
    IF c.errorResponse = "throws"
    THEN [req |-> rq, res |-> ErrorHandler(ErrorResponse(c, rq, rs)),
          outcome |-> "error", trace |-> Append(calls, "next(error)"),
          submitted |-> token, canonical |-> IF read THEN g.val ELSE Undefined]
    ELSE [req |-> rq, res |-> ErrorResponse(c, rq, rs), outcome |-> "rejected",
          trace |-> calls,
          submitted |-> token, canonical |-> IF read THEN g.val ELSE Undefined]

\* csrf.clearToken(req, res), then next(); a TypeError of clearToken goes to
\* next(error).
Accept(c, rq, rs, token, g) ==
    LET cl == ClearToken(c, rq, rs) IN
    IF ~cl.ok
    THEN [req |-> rq, res |-> ErrorHandler(rs), outcome |-> "error",
          trace |-> <<"protectCondition", "getTransmitToken", "getToken",
                      "clearToken", "next(error)">>,
          submitted |-> token, canonical |-> g.val]
    ELSE [req |-> cl.req, res |-> cl.res, outcome |-> "next",
          trace |-> <<"protectCondition", "getTransmitToken", "getToken",
                      "clearToken", "next">>,
          submitted |-> token, canonical |-> g.val]

\* protect. trace lists the calls it makes, in order. getTransmitToken
\* throws a TypeError when req.body is undefined. In
\* !token || token !== csrf.getToken(req), getToken runs only for a truthy
\* token.
ProtectStep(c, rq, rs) ==
    IF ~ProtectCondition(c, rq) THEN Proceed(c, rq, rs)
    ELSE IF ~rq.hasBody
    THEN [req |-> rq, res |-> ErrorHandler(rs), outcome |-> "error",
          trace |-> <<"protectCondition", "getTransmitToken", "next(error)">>,
          submitted |-> Undefined, canonical |-> Undefined]
    ELSE LET token == GetTransmitToken(c, rq)
             read == ~Not(token)
             g == IF read THEN GetToken(c, rq) ELSE [ok |-> TRUE, val |-> Undefined]
         IN
         IF ~g.ok
         THEN [req |-> rq, res |-> ErrorHandler(rs), outcome |-> "error",
               trace |-> <<"protectCondition", "getTransmitToken", "getToken",
                           "next(error)">>,
               submitted |-> token, canonical |-> Undefined]
         ELSE IF TokenInvalid(token, g) THEN Reject(c, rq, rs, token, g, read)
         ELSE Accept(c, rq, rs, token, g)

(* ------------------------------ environment --------------------------- *)

Methods == {"GET", "POST", "PUT", "DELETE", "PATCH"}

\* The deployments: express-session, cookie-parser and body-parser mounted
\* or not.
Apps == [session : BOOLEAN, cookies : BOOLEAN, body : BOOLEAN]

\* The tokens minted so far, and a string of the sender's own making.
Minted(c, n) == IF c.tokenLength < 0 THEN {} ELSE {NewToken(i, c.tokenLength) : i \in 1..n}
Forged == Str(<<15>>)
Sendable(c, n) == Minted(c, n) \cup {Forged}

\* What a sender submits: nothing, one body field, or the csrf-token header.
Submissions(c, n) ==
    {[body |-> EmptyObject, header |-> Undefined]}
    \cup {[body |-> [EmptyObject EXCEPT ![f] = v], header |-> Undefined] :
             f \in Params, v \in Sendable(c, n)}
    \cup {[body |-> EmptyObject, header |-> v] : v \in Sendable(c, n)}

\* The Cookie header of a request built by hand (supertest, curl).
RawCookies(c, n) ==
    {EmptyObject} \cup {[EmptyObject EXCEPT ![c.param] = v] : v \in Sendable(c, n)}

\* The browser applies the response's Set-Cookie headers in order.
RECURSIVE ApplyCookies(_, _)
ApplyCookies(j, ops) ==
    IF ops = <<>> THEN j
    ELSE ApplyCookies([j EXCEPT ![Head(ops).name] = Head(ops).val], Tail(ops))

\* The request inputs, as sent.
Sent(rq) ==
    [method |-> rq.method, body |-> rq.body, header |-> rq.header, cookies |-> rq.cookies]

\* A request is in the client's storage scope when the canonical token it
\* carries is the one the scope holds: always with session storage, and with
\* cookie storage when the browser attached its jar.
InScope(c, rq) == c.storage = STORAGE_SESSION \/ rq.kind = "browser"

\* protect accepted a token (compared and cleared) in the request logged in l.
Accepted(l) ==
    l.protect.ran /\ l.protect.outcome = "next" /\ Len(l.protect.trace) > 2

\* The token the scope holds once the last issue of the request has run.
AfterIssue(l) ==
    LET e == l.issues[Len(l.issues)] IN IF e.minted THEN e.token ELSE e.found

\* What is remembered of the requests served so far:
\*   consumed  the tokens protect accepted
\*   replayable  the requests protect accepted under cookie storage, as sent
\*   issued  the token the last issue left in the client's scope, undefined
\*           once protect has accepted it
NoHistory == [consumed |-> {}, replayable |-> {}, issued |-> Undefined]

Remember(h, c, rq, l) ==
    [consumed |-> IF Accepted(l) THEN h.consumed \cup {l.protect.submitted}
                  ELSE h.consumed,
     replayable |-> IF Accepted(l) /\ c.storage = STORAGE_COOKIE
                    THEN h.replayable \cup {Sent(rq)} ELSE h.replayable,
     issued |-> IF ~InScope(c, rq) \/ rq.how = "throw" \/ rq.how = "error"
                THEN h.issued
                ELSE IF Accepted(l) THEN Undefined
                ELSE AfterIssue(l)]

(* -------------------------------- actions ----------------------------- *)

Init ==
    /\ csrf = InitialCsrf
    /\ instances = <<>>
    /\ app \in Apps
    /\ store = EmptyObject
    /\ jar = EmptyObject
    /\ req = IdleReq
    /\ res = FreshRes
    /\ nonce = 0
    /\ served = 0
    /\ log = EmptyLog
    /\ hist = NoHistory
    /\ flight = NoFlights

\* generate(csrfConfig), the result mounted with app.use
Generate(cc) ==
    /\ req.pc = "idle"
    /\ served = 0
    /\ Len(instances) < MaxInstances
    /\ csrf' = Merge(csrf, cc)
    /\ instances' = Append(instances, cc)
    /\ UNCHANGED <<app, store, jar, req, res, nonce, served, log, hist, flight>>

\* generate()
GenerateDefault == Generate(DefaultParameter(csrf))

\* generate({...})
GenerateWith(cfg) == Generate(cfg)

\* A request arrives: cookie-parser and express-session fill req.cookies
\* and req.session.
Begin(kind, method, sub, raw) ==
    /\ req.pc = "idle"
    /\ Len(instances) >= 1
    /\ served < MaxRequests
    /\ nonce + Len(instances) <= MaxTokens
    /\ req' = [IdleReq EXCEPT
                  !.pc = "issue", !.i = 1, !.kind = kind, !.method = method,
                  !.hasBody = app.body,
                  !.body = IF app.body THEN sub.body ELSE EmptyObject,
                  !.header = sub.header,
                  !.hasCookies = app.cookies,
                  !.cookies = IF ~app.cookies THEN EmptyObject
                              ELSE IF kind = "browser" THEN jar ELSE raw,
                  !.hasSession = app.session,
                  !.session = IF app.session THEN store ELSE EmptyObject]
    /\ res' = FreshRes
    /\ log' = EmptyLog
    /\ UNCHANGED <<csrf, instances, app, store, jar, nonce, served, hist, flight>>

BrowserRequest ==
    \E method \in Methods, sub \in Submissions(csrf, nonce) :
        Begin("browser", method, sub, EmptyObject)

RawRequest ==
    \E method \in Methods, sub \in Submissions(csrf, nonce), raw \in RawCookies(csrf, nonce) :
        Begin("raw", method, sub, raw)

\* The i-th mounted instance runs.
Issue ==
    /\ req.pc = "issue"
    /\ LET r == IssueStep(instances[req.i], csrf, req, res, nonce) IN
        /\ req' = [r.req EXCEPT
                      !.pc = IF r.outcome # "next" THEN "halted"
                             ELSE IF req.i < Len(instances) THEN "issue" ELSE "expose",
                      !.i = IF r.outcome = "next" /\ req.i < Len(instances)
                            THEN req.i + 1 ELSE req.i,
                      !.how = IF r.outcome = "next" THEN "none" ELSE r.outcome]
        /\ res' = r.res
        /\ nonce' = IF r.minted THEN nonce + 1 ELSE nonce
        /\ log' = [log EXCEPT !.issues =
                       Append(@, [found |-> r.found, minted |-> r.minted,
                                  token |-> r.token, outcome |-> r.outcome])]
    /\ UNCHANGED <<csrf, instances, app, store, jar, served, hist, flight>>

\* app.use(csrf.setTokenLocalsParam)
Expose ==
    /\ req.pc = "expose"
    /\ LET r == ExposeStep(csrf, req, res) IN
        /\ req' = [req EXCEPT !.pc = IF r.outcome = "next" THEN "protect" ELSE "halted",
                              !.how = IF r.outcome = "next" THEN "none" ELSE r.outcome]
        /\ res' = r.res
    /\ log' = [log EXCEPT !.exposed = TRUE]
    /\ UNCHANGED <<csrf, instances, app, store, jar, nonce, served, hist, flight>>

\* csrf.protect in front of the route
Protect ==
    /\ req.pc = "protect"
    /\ LET r == ProtectStep(csrf, req, res) IN
        /\ req' = [r.req EXCEPT !.pc = IF r.outcome = "next" THEN "handler" ELSE "halted",
                                !.how = IF r.outcome = "next" THEN "none" ELSE r.outcome]
        /\ res' = r.res
        /\ log' = [log EXCEPT !.protect =
                       [ran |-> TRUE, trace |-> r.trace, submitted |-> r.submitted,
                        canonical |-> r.canonical, outcome |-> r.outcome,
                        before |-> IF GetToken(csrf, req).ok
                                   THEN GetToken(csrf, req).val ELSE Undefined,
                        session |-> req.session, ops |-> Len(res.cookieOps),
                        steps |-> IF r.canonical # Undefined
                                  THEN CompareSteps(r.submitted, r.canonical)
                                  ELSE 0]]
    /\ UNCHANGED <<csrf, instances, app, store, jar, nonce, served, hist, flight>>

\* The route handler protect continues to: res.status(200).send(...)
Handler ==
    /\ req.pc = "handler"
    /\ req' = [req EXCEPT !.pc = "halted", !.how = "ok"]
    /\ res' = [res EXCEPT !.status = 200, !.text = "CSRF token valid"]
    /\ UNCHANGED <<csrf, instances, app, store, jar, nonce, served, log, hist, flight>>

\* The response goes out: express-session saves req.session, the browser
\* applies the Set-Cookie headers. A request whose middleware threw gets no
\* response.
End ==
    /\ req.pc = "halted"
    /\ store' = IF req.hasSession /\ req.how # "throw" THEN req.session ELSE store
    /\ jar' = IF req.kind = "browser" /\ req.how # "throw"
               THEN ApplyCookies(jar, res.cookieOps) ELSE jar
    /\ hist' = Remember(hist, csrf, req, log)
    /\ served' = served + 1
    /\ req' = IdleReq
    /\ res' = FreshRes
    /\ log' = EmptyLog
    /\ UNCHANGED <<csrf, instances, app, nonce, flight>>

Next ==
    \/ GenerateDefault
    \/ \E cfg \in Configs : GenerateWith(cfg)
    \/ BrowserRequest
    \/ RawRequest
    \/ Issue
    \/ Expose
    \/ Protect
    \/ Handler
    \/ End

Spec == Init /\ [][Next]_vars

(* ----------------------- requests served concurrently ----------------- *)

\* One application (express-session, cookie-parser and body-parser mounted,
\* one instance, then setTokenLocalsParam and protect) serving up to
\* MaxFlights requests of one client at a time. express-session gives every
\* request its own req.session, loaded from the store when the request
\* arrives, and with resave: false writes it back when the response ends if
\* the request changed it.

ConcurrentConfigs == {DefaultParameter(InitialCsrf), CookieConfig}

InitConcurrent ==
    /\ \E cfg \in ConcurrentConfigs :
           csrf = Merge(InitialCsrf, cfg) /\ instances = <<cfg>>
    /\ app = [session |-> TRUE, cookies |-> TRUE, body |-> TRUE]
    /\ store = EmptyObject
    /\ jar = EmptyObject
    /\ req = IdleReq
    /\ res = FreshRes
    /\ nonce = 0
    /\ served = 0
    /\ log = EmptyLog
    /\ hist = NoHistory
    /\ flight = NoFlights

InFlight == Cardinality({k \in 1..MaxFlights : flight[k].req.pc # "idle"})

\* What the browser submits: nothing, or a token it was given, in the body
\* field _csrf.
FlightSubmissions(c, n) ==
    {[body |-> EmptyObject, header |-> Undefined]}
    \cup {[body |-> [EmptyObject EXCEPT !["_csrf"] = v], header |-> Undefined] :
             v \in Minted(c, n)}

\* A request of the browser arrives in slot k.
Arrive(k, method, sub) ==
    /\ flight[k].req.pc = "idle"
    /\ served + InFlight < MaxRequests
    /\ flight' = [flight EXCEPT ![k] =
                     [req |-> [IdleReq EXCEPT
                                  !.pc = "issue", !.i = 1, !.method = method,
                                  !.hasBody = TRUE, !.body = sub.body,
                                  !.header = sub.header,
                                  !.hasCookies = TRUE, !.cookies = jar,
                                  !.hasSession = TRUE, !.session = store],
                      res |-> FreshRes, log |-> EmptyLog, loaded |-> store]]
    /\ UNCHANGED <<csrf, instances, app, store, jar, req, res, nonce, served, log, hist>>

FlightArrive(k) ==
    \E method \in {"GET", "POST"}, sub \in FlightSubmissions(csrf, nonce) :
        Arrive(k, method, sub)

\* The instance runs on the request in slot k.
FlightIssue(k) ==
    /\ flight[k].req.pc = "issue"
    /\ LET f == flight[k]
           r == IssueStep(instances[1], csrf, f.req, f.res, nonce) IN
        /\ flight' = [flight EXCEPT ![k] =
               [f EXCEPT
                   !.req = [r.req EXCEPT
                               !.pc = IF r.outcome = "next" THEN "expose" ELSE "halted",
                               !.how = IF r.outcome = "next" THEN "none" ELSE r.outcome],
                   !.res = r.res,
                   !.log = [f.log EXCEPT !.issues =
                               Append(@, [found |-> r.found, minted |-> r.minted,
                                          token |-> r.token, outcome |-> r.outcome])]]]
        /\ nonce' = IF r.minted THEN nonce + 1 ELSE nonce
    /\ UNCHANGED <<csrf, instances, app, store, jar, req, res, served, log, hist>>

\* setTokenLocalsParam runs on the request in slot k.
FlightExpose(k) ==
    /\ flight[k].req.pc = "expose"
    /\ LET f == flight[k]
           r == ExposeStep(csrf, f.req, f.res) IN
        flight' = [flight EXCEPT ![k] =
            [f EXCEPT
                !.req = [f.req EXCEPT
                            !.pc = IF r.outcome = "next" THEN "protect" ELSE "halted",
                            !.how = IF r.outcome = "next" THEN "none" ELSE r.outcome],
                !.res = r.res,
                !.log = [f.log EXCEPT !.exposed = TRUE]]]
    /\ UNCHANGED <<csrf, instances, app, store, jar, req, res, nonce, served, log, hist>>

\* protect runs on the request in slot k.
FlightProtect(k) ==
    /\ flight[k].req.pc = "protect"
    /\ LET f == flight[k]
           r == ProtectStep(csrf, f.req, f.res) IN
        flight' = [flight EXCEPT ![k] =
            [f EXCEPT
                !.req = [r.req EXCEPT
                            !.pc = IF r.outcome = "next" THEN "handler" ELSE "halted",
                            !.how = IF r.outcome = "next" THEN "none" ELSE r.outcome],
                !.res = r.res,
                !.log = [f.log EXCEPT !.protect =
                            [ran |-> TRUE, trace |-> r.trace, submitted |-> r.submitted,
                             canonical |-> r.canonical, outcome |-> r.outcome,
                             before |-> IF GetToken(csrf, f.req).ok
                                        THEN GetToken(csrf, f.req).val ELSE Undefined,
                             session |-> f.req.session, ops |-> Len(f.res.cookieOps),
                             steps |-> IF r.canonical # Undefined
                                       THEN CompareSteps(r.submitted, r.canonical)
                                       ELSE 0]]]]
    /\ UNCHANGED <<csrf, instances, app, store, jar, req, res, nonce, served, log, hist>>

\* The route handler of the request in slot k answers.
FlightHandler(k) ==
    /\ flight[k].req.pc = "handler"
    /\ flight' = [flight EXCEPT
                     ![k].req = [@ EXCEPT !.pc = "halted", !.how = "ok"],
                     ![k].res = [@ EXCEPT !.status = 200, !.text = "CSRF token valid"]]
    /\ UNCHANGED <<csrf, instances, app, store, jar, req, res, nonce, served, log, hist>>

\* The response of the request in slot k ends: express-session saves the
\* session the request changed, the browser applies the Set-Cookie headers.
Respond(k) ==
    /\ flight[k].req.pc = "halted"
    /\ store' = IF flight[k].req.session # flight[k].loaded
                THEN flight[k].req.session ELSE store
    /\ jar' = ApplyCookies(jar, flight[k].res.cookieOps)
    /\ served' = served + 1
    /\ flight' = [flight EXCEPT ![k] = NoFlight]
    /\ UNCHANGED <<csrf, instances, app, req, res, nonce, log, hist>>

NextConcurrent ==
    \E k \in 1..MaxFlights :
        \/ FlightArrive(k)
        \/ FlightIssue(k)
        \/ FlightExpose(k)
        \/ FlightProtect(k)
        \/ FlightHandler(k)
        \/ Respond(k)

SpecConcurrent == InitConcurrent /\ [][NextConcurrent]_vars

(* ------------------------------- claims ------------------------------- *)

\* The request being served is subject to validation.
Protected == ProtectCondition(csrf, req)

\* The token the request submits, as the extraction hook sees it.
Submitted == GetTransmitToken(csrf, req)

\* The canonical token of the request's scope as protect found it.
CanonicalBefore == log.protect.before

\* C1: single use. Once protect has accepted a protected request presenting
\* token T, every later protected request presenting T is rejected.
C1_SingleUse ==
    (log.protect.ran /\ Protected /\ Submitted \in hist.consumed)
        => log.protect.outcome = "rejected"

\* C2: cookie-scoped replay. With cookie storage, a request that repeats an
\* accepted request exactly (same method, body, header and cookie) is
\* rejected with the 403 response.
C2_CookieReplayRejected ==
    (csrf.storage = STORAGE_COOKIE /\ log.protect.ran /\ Len(log.issues) >= 1
     /\ Sent(req) \in hist.replayable)
        => (log.protect.outcome = "rejected" /\ res.status = 403
            /\ res.text = "CSRF token invalid")

\* C3: reject decision (the hooks returning normally). On a protected
\* request whose submitted token is
\* absent, or whose canonical token is absent, or where the two differ,
\* protect calls errorResponse and not next; with the default errorResponse
\* the response is 403 'CSRF token invalid'.
C3_RejectDecision ==
    (log.protect.ran /\ Protected /\ req.hasBody /\ csrf.errorResponse # "throws"
     /\ (Not(Submitted) \/ Not(CanonicalBefore) \/ Submitted # CanonicalBefore))
        => /\ log.protect.outcome = "rejected"
           /\ log.protect.trace[Len(log.protect.trace)] = "errorResponse"
           /\ \A k \in 1..Len(log.protect.trace) :
                  log.protect.trace[k] \notin {"next", "next(error)"}
           /\ req.pc = "halted" /\ req.how = "rejected"
           /\ csrf.errorResponse = "default"
                  => (res.status = 403 /\ res.text = "CSRF token invalid")

\* C3's case: a protected request submits a token that differs from the
\* canonical token of its scope and is answered 403.
C3_Witness ==
    /\ log.protect.ran /\ Protected
    /\ Truthy(Submitted) /\ Truthy(CanonicalBefore) /\ Submitted # CanonicalBefore
    /\ log.protect.outcome = "rejected" /\ res.status = 403

\* C4: consume before continue. When protect accepts, it clears the
\* canonical token before it calls next, so that when the continuation runs
\* a read of the canonical token of the request returns absent.
C4_ConsumedBeforeContinue ==
    (req.pc = "handler" /\ Accepted(log))
        => /\ log.protect.trace =
                 <<"protectCondition", "getTransmitToken", "getToken", "clearToken", "next">>
           /\ GetToken(csrf, req).ok
           /\ Not(GetToken(csrf, req).val)

\* C5: policy bypass. On a request protectCondition declines, protect calls
\* nothing but next: no getTransmitToken, no getToken, no clearToken, no
\* errorResponse, and the canonical token is what it was.
C5_PolicyBypass ==
    (log.protect.ran /\ ~Protected)
        => /\ log.protect.trace = <<"protectCondition", "next">>
           /\ log.protect.outcome = "next"
           /\ req.session = log.protect.session
           /\ Len(res.cookieOps) = log.protect.ops
           /\ GetToken(csrf, req).val = CanonicalBefore
           /\ res.status # 403

\* C5's case: an unprotected request passes protect while its scope holds a
\* token and the request submits one.
C5_Witness ==
    /\ log.protect.ran /\ ~Protected /\ req.pc = "handler"
    /\ Truthy(CanonicalBefore) /\ Truthy(Submitted)

\* C6: rejection leaves the token intact. When protect rejects, the
\* canonical token is what it was before protect ran: no clearToken, no
\* session write, no Set-Cookie.
C6_RejectionKeepsToken ==
    (log.protect.ran /\ log.protect.outcome = "rejected")
        => /\ req.session = log.protect.session
           /\ Len(res.cookieOps) = log.protect.ops
           /\ GetToken(csrf, req).val = CanonicalBefore
           /\ \A k \in 1..Len(log.protect.trace) : log.protect.trace[k] # "clearToken"

\* C6's case: a request is rejected while its scope holds a token.
C6_Witness ==
    /\ log.protect.ran /\ log.protect.outcome = "rejected"
    /\ Truthy(CanonicalBefore) /\ GetToken(csrf, req).val = CanonicalBefore

\* The token the scope holds once the j-th issue of the request has run.
TokenAfter(j) ==
    IF log.issues[j].minted THEN log.issues[j].token ELSE log.issues[j].found

\* C7: idempotent issue. When issue runs again in the same scope with no
\* accepted validation in between, later in the same request or in the
\* client's next request, it writes nothing and the canonical token is the
\* one the earlier run left.
C7_IdempotentIssue ==
    /\ \A j \in 2..Len(log.issues) :
           (log.issues[j - 1].outcome = "next" /\ log.issues[j].outcome = "next")
               => (~log.issues[j].minted /\ TokenAfter(j) = TokenAfter(j - 1))
    /\ (Len(log.issues) >= 1 /\ log.issues[1].outcome = "next"
        /\ InScope(csrf, req) /\ Truthy(hist.issued))
           => (~log.issues[1].minted /\ TokenAfter(1) = hist.issued)

\* C8: round trip. A token T that issue mints is the value expose sets and
\* the canonical value protect reads later in the same request, and a client
\* that submits the token it was issued is accepted on its next protected
\* request.
C8_RoundTrip ==
    /\ log.protect.ran
           => \A j \in 1..Len(log.issues) :
                 log.issues[j].minted
                     => (res.locals[csrf.value] = log.issues[j].token
                         /\ CanonicalBefore = log.issues[j].token)
    /\ (log.protect.ran /\ Protected /\ InScope(csrf, req)
        /\ Truthy(hist.issued) /\ Submitted = hist.issued)
           => log.protect.outcome = "next"

\* The configuration in effect when the k-th generate returned: what the
\* k-th instance was constructed with.
RECURSIVE Configured(_)
Configured(k) == IF k = 0 THEN InitialCsrf ELSE Merge(Configured(k - 1), instances[k])

\* C9: per-instance configuration. The issue of every instance reads and
\* writes as the configuration it was constructed with says, whatever
\* generate was called with afterwards.
C9_PerInstanceConfiguration ==
    [][req.pc = "issue" =>
          LET r == IssueStep(instances[req.i], Configured(req.i), req, res, nonce) IN
          /\ res' = r.res
          /\ req'.session = r.req.session
          /\ req'.currentCsrfToken = r.req.currentCsrfToken]_vars

\* C10: every configuration field is optional. The only instance of an
\* application, generated from a configuration without storage, uses session
\* storage, 16 bytes and '_csrf': on a request that has a session its issue
\* leaves a 32-digit token in req.session._csrf and calls next().
C10_PartialConfiguration ==
    (Len(instances) = 1 /\ "storage" \notin instances[1].has
     /\ req.hasSession /\ Len(log.issues) >= 1)
        => /\ log.issues[1].outcome = "next"
           /\ Truthy(req.session["_csrf"])
           /\ Len(req.session["_csrf"].s) = 2 * DefaultTokenLength

\* The request lacks the backend of the storage kind configuration c names.
BackendMissing(c, rq) ==
    \/ c.storage = STORAGE_SESSION /\ ~rq.hasSession
    \/ c.storage = STORAGE_COOKIE /\ ~rq.hasCookies

\* The instance about to run is configured, by its own csrfConfig or by the
\* configuration in force, with a storage kind whose backend the request
\* lacks.
IssueLacksBackend ==
    \/ BackendMissing(csrf, req)
    \/ "storage" \in instances[req.i].has /\ BackendMissing(instances[req.i], req)

\* C11: missing storage backend. When issue runs on a request that lacks the
\* backend of the configured storage kind, it mints no token, writes neither
\* session nor cookie, does not call next(), and the error leaves the
\* middleware: thrown to its caller or passed to next(error).
C11_MissingBackend ==
    [][(req.pc = "issue" /\ IssueLacksBackend)
          => /\ nonce' = nonce
             /\ req'.session = req.session
             /\ req'.currentCsrfToken = req.currentCsrfToken
             /\ res'.cookieOps = res.cookieOps
             /\ req'.pc = "halted"
             /\ req'.how \in {"throw", "error"}]_vars

\* C11's case: issue has run, with session storage, on a request without
\* req.session, and threw.
C11_Witness ==
    /\ Len(log.issues) = 1 /\ log.issues[1].outcome = "throw"
    /\ "storage" \in instances[1].has
    /\ csrf.storage = STORAGE_SESSION /\ ~req.hasSession
    /\ req.pc = "halted"

\* C12: default extraction. With the default getTransmitToken the submitted
\* token is the body field named by the configured param if the body has it,
\* otherwise the csrf-token header, otherwise absent.
C12_DefaultExtraction ==
    (log.protect.ran /\ Protected /\ req.hasBody /\ csrf.getTransmitToken = "default")
        => log.protect.submitted = Or(req.body[csrf.param], req.header)

\* The token the last minting issue of the request created.
RECURSIVE LastMinted(_)
LastMinted(j) ==
    IF j = 0 THEN Undefined
    ELSE IF log.issues[j].minted THEN log.issues[j].token
    ELSE LastMinted(j - 1)

\* C13: expose. setTokenLocalsParam sets the response local named by
\* csrf.value to the canonical token of the request, or, when the request
\* does not carry it yet, to the token issue minted earlier in the request;
\* it changes neither session nor cookies and goes on to the next middleware.
C13_Expose ==
    [][req.pc = "expose"
          => LET canon == GetToken(csrf, req).val IN
             /\ res'.locals[csrf.value] =
                    (IF Truthy(canon) THEN canon ELSE LastMinted(Len(log.issues)))
             /\ req'.session = req.session
             /\ req'.cookies = req.cookies
             /\ res'.cookieOps = res.cookieOps
             /\ req'.pc = "protect"]_vars

\* C13's case: with cookie storage, expose has run on the request whose
\* issue minted the token; the request carries no cookie and the local holds
\* the minted token.
C13_Witness ==
    /\ log.exposed /\ req.pc = "protect"
    /\ csrf.storage = STORAGE_COOKIE
    /\ Not(GetToken(csrf, req).val)
    /\ Truthy(res.locals[csrf.value])
    /\ res.locals[csrf.value] = LastMinted(Len(log.issues))

\* C14: issue postcondition. Whenever the request has the backend of the
\* configured storage kind (and the configured token length is positive),
\* every run of issue calls next() and leaves an active (non-absent) token
\* in the scope.
C14_IssuePostcondition ==
    \A j \in 1..Len(log.issues) :
        (~BackendMissing(csrf, req) /\ csrf.tokenLength > 0)
            => (log.issues[j].outcome = "next" /\ Truthy(TokenAfter(j)))

\* Issue is about to fail inside its try block: the storage read throws, or
\* the token is absent and randomBytes refuses the length.
IssueFails ==
    /\ "storage" \in instances[req.i].has
    /\ ~BackendMissing(instances[req.i], req)
    /\ \/ ~GetToken(csrf, req).ok
       \/ Not(GetToken(csrf, req).val) /\ csrf.tokenLength < 0

\* Protect is about to fail: the extraction hook throws, or the storage read
\* or clear throws.
ProtectFails ==
    /\ Protected
    /\ \/ ~req.hasBody
       \/ Truthy(Submitted) /\ ~GetToken(csrf, req).ok

\* C15: unexpected errors are propagated. A failure of the storage access,
\* of the token generation or of a hook inside issue or protect goes to
\* next(error): errorResponse is not called and no 403 is produced; protect
\* answers with the rejection only for a missing or mismatched token.
C15_ErrorsPropagated ==
    [][/\ (req.pc = "issue" /\ IssueFails)
            => (req'.how = "error" /\ req'.pc = "halted" /\ res'.status # 403
                /\ nonce' = nonce)
       /\ (req.pc = "protect" /\ ProtectFails)
            => /\ req'.how = "error" /\ req'.pc = "halted" /\ res'.status # 403
               /\ log'.protect.outcome = "error"
               /\ \A k \in 1..Len(log'.protect.trace) :
                      log'.protect.trace[k] # "errorResponse"
               /\ log'.protect.trace[Len(log'.protect.trace)] = "next(error)"
       /\ (req.pc \in {"issue", "expose", "protect"} /\ res'.status = 403)
            => /\ req.pc = "protect" /\ Protected /\ req.hasBody
               /\ log'.protect.outcome = "rejected"
               /\ (Not(Submitted) \/ Submitted # GetToken(csrf, req).val)]_vars

\* C15's cases: protect's extraction hook threw on a request without
\* req.body, and the request ended in the error handler.
C15_Witness ==
    /\ log.protect.ran /\ log.protect.outcome = "error"
    /\ ~req.hasBody /\ Protected
    /\ req.pc = "halted" /\ req.how = "error" /\ res.status = 500

\* C16: default policy. With the default protectCondition protect validates
\* (extracts and compares a token) exactly when the method is POST, PUT or
\* DELETE; a request of any other method passes without a token.
C16_DefaultProtectCondition ==
    (log.protect.ran /\ csrf.protectCondition = "default")
        => /\ req.method \in {"POST", "PUT", "DELETE"}
                <=> (Len(log.protect.trace) > 2
                     /\ log.protect.trace[2] = "getTransmitToken")
           /\ req.method \notin {"POST", "PUT", "DELETE"}
                => (log.protect.outcome = "next"
                    /\ log.protect.trace = <<"protectCondition", "next">>)

\* C16's case: a PATCH request without a token has passed protect.
C16_Witness ==
    /\ log.protect.ran /\ csrf.protectCondition = "default"
    /\ req.method = "PATCH" /\ Not(req.body["_csrf"]) /\ Not(req.header)
    /\ req.pc = "handler"

\* C17: non-positive token length. With tokenLength <= 0 an issue that finds
\* no token fails: it mints nothing, writes no (empty) token and does not
\* call next().
C17_NonPositiveLength ==
    \A j \in 1..Len(log.issues) :
        (csrf.tokenLength <= 0 /\ Not(log.issues[j].found))
            => /\ log.issues[j].outcome # "next"
               /\ ~log.issues[j].minted
               /\ req.session[csrf.param] # Str(<<>>)

\* C18: constant-time comparison. Comparing a submitted token with a
\* canonical token of the same length looks at every code unit, wherever the
\* first difference is.
C18_ConstantTimeComparison ==
    (log.protect.ran
     /\ log.protect.submitted.k = "string" /\ log.protect.canonical.k = "string"
     /\ Len(log.protect.submitted.s) = Len(log.protect.canonical.s))
        => log.protect.steps = Len(log.protect.canonical.s)

\* The canonical token of the client's scope: in the session store, or in
\* the browser's cookie jar.
ScopeToken ==
    IF csrf.storage = STORAGE_SESSION THEN store[csrf.param] ELSE jar[csrf.param]

\* Requests a and b are in flight in one session, both loaded the token T
\* from the store, both submit T on a protected method, and protect has run
\* on both.
Racing(a, b) ==
    /\ a # b
    /\ csrf.storage = STORAGE_SESSION
    /\ flight[a].log.protect.ran /\ flight[b].log.protect.ran
    /\ ProtectCondition(csrf, flight[a].req) /\ ProtectCondition(csrf, flight[b].req)
    /\ Truthy(flight[a].loaded[csrf.param])
    /\ flight[b].loaded[csrf.param] = flight[a].loaded[csrf.param]
    /\ GetTransmitToken(csrf, flight[a].req) = flight[a].loaded[csrf.param]
    /\ GetTransmitToken(csrf, flight[b].req) = flight[a].loaded[csrf.param]

\* C19: check-then-clear race. Two concurrent protected requests of one
\* session that both present the active token T and both read T before
\* either clear reaches the store are both accepted: each found T as
\* canonical, cleared its own req.session and continued.
C19_CheckThenClearRace ==
    \A a, b \in 1..MaxFlights :
        Racing(a, b)
            => /\ Accepted(flight[a].log) /\ Accepted(flight[b].log)
               /\ flight[a].log.protect.canonical = flight[a].loaded[csrf.param]
               /\ flight[b].log.protect.canonical = flight[a].loaded[csrf.param]
               /\ Not(flight[a].req.session[csrf.param])
               /\ Not(flight[b].req.session[csrf.param])

\* C19's case: both requests have been accepted for the one token T, which
\* the store still holds, and both route handlers are about to run.
C19_Witness ==
    \E a, b \in 1..MaxFlights :
        /\ Racing(a, b)
        /\ flight[a].req.pc = "handler" /\ flight[b].req.pc = "handler"
        /\ Accepted(flight[a].log) /\ Accepted(flight[b].log)
        /\ store[csrf.param] = flight[a].loaded[csrf.param]

\* C20: token state machine. Under any interleaving of a client's requests
\* the canonical token of the scope changes only from absent to the token an
\* issue minted and from active to absent after protect accepted; an active
\* token is never replaced by a different token.
C20_TokenStateMachine ==
    [][ScopeToken' # ScopeToken
          => \E k \in 1..MaxFlights :
                /\ flight[k].req.pc = "halted"
                /\ \/ /\ Not(ScopeToken) /\ Truthy(ScopeToken')
                      /\ flight[k].log.issues[1].minted
                      /\ ScopeToken' = flight[k].log.issues[1].token
                   \/ /\ Truthy(ScopeToken) /\ Not(ScopeToken')
                      /\ Accepted(flight[k].log)]_vars

\* C21: token origin. protect accepts a request only when the submitted
\* token is one that issue minted and that no earlier request consumed; a
\* canonical value of the sender's own making is never accepted.
C21_TokenOrigin ==
    Accepted(log)
        => /\ log.protect.submitted \in Minted(csrf, nonce)
           /\ log.protect.submitted \notin hist.consumed

\* The token the request's scope holds when the response ends: what is left
\* in req.session, or the request's cookie after the response's Set-Cookie
\* headers.
TokenAtEnd ==
    IF csrf.storage = STORAGE_SESSION THEN req.session[csrf.param]
    ELSE ApplyCookies(req.cookies, res.cookieOps)[csrf.param]

\* C22: the exposed token is never stale. When a request that ran issue,
\* setTokenLocalsParam and protect ends, the response local holds the token
\* the scope holds then; after protect accepted and consumed T it does not
\* still hold T.
C22_ExposedNotStale ==
    (req.pc = "halted" /\ log.exposed /\ log.protect.ran)
        => /\ Or(res.locals[csrf.value], Null) = Or(TokenAtEnd, Null)
           /\ Accepted(log) => res.locals[csrf.value] # log.protect.submitted

\* The calls of protect's trace that end it: next(), errorResponse, or
\* next(error).
Outcomes(trace) ==
    {k \in 1..Len(trace) : trace[k] \in {"next", "errorResponse", "next(error)"}}

\* C23: exactly one outcome. Every run of protect makes exactly one of the
\* calls next(), errorResponse(...) and next(error), once, and makes it last:
\* next is not called twice and not called after errorResponse, whatever
\* throws.
C23_ExactlyOneOutcome ==
    log.protect.ran
        => /\ Cardinality(Outcomes(log.protect.trace)) = 1
           /\ Outcomes(log.protect.trace) = {Len(log.protect.trace)}

\* C24: generate() resets to the defaults. Once generate has been called
\* without an argument, the configuration in force is the default
\* configuration in full, whatever earlier calls supplied.
C24_GenerateResetsDefaults ==
    (Len(instances) >= 1 /\ instances[Len(instances)].has = Fields)
        => csrf = InitialCsrf

====
